---- MODULE Spec2Model ----
(***************************************************************************)
(* Model of the harper-chatbot-services RAG back end:                      *)
(*   - split_into_chunks (app/utils/text_processing.py), the chunker;      *)
(*   - chat (app/routes/chat.py), the query flow;                          *)
(*   - upload_file / process_chunks / delete_media                         *)
(*     (app/routes/process_chunks.py), the ingestion flow and the store.   *)
(*                                                                         *)
(* Strings are sequences of one-character strings.  The symbol "W" stands  *)
(* for a run of BlockLen letters (no terminator, no blank), so that texts  *)
(* longer than the default chunk size of 1000 stay small as sequences.     *)
(***************************************************************************)
EXTENDS Integers, Sequences, FiniteSets, TLC

\* ------------------------------------------------------------------------
\* Bounds of the model
\* ------------------------------------------------------------------------
MaxTextLen == 5
MaxChunkSize == 3
MaxResults == 11
MaxFreeResults == 3
MaxForeground == 1

\* ------------------------------------------------------------------------
\* Program constants
\* ------------------------------------------------------------------------
DefaultChunkSize == 1000
ContextLimit == 10
DefaultMaxContextChunks == 10
BlockLen == 600

VARIABLES
    \* chunker harness
    text, chunk_size, chunks, chunkPc,
    \* chat
    chatPc, request, vector_search_result, workspace_media_ids,
    filtered_results, context, context_sources, completion, outcome, calls,
    \* store and ingestion
    storage, media, media_workspace_mapping, chunksTable, nextMediaId,
    fileText, tasks, uploads, deleted

chunkVars == <<text, chunk_size, chunks, chunkPc>>
chatVars == <<chatPc, request, vector_search_result, workspace_media_ids,
              filtered_results, context, context_sources, completion,
              outcome, calls>>
storeVars == <<storage, media, media_workspace_mapping, chunksTable,
               nextMediaId, fileText, tasks, uploads, deleted>>
vars == <<chunkVars, chatVars, storeVars>>

\* ------------------------------------------------------------------------
\* Strings
\* ------------------------------------------------------------------------
Alphabet == {"a", ".", " "}

Width(c) == IF c = "W" THEN BlockLen ELSE 1

RECURSIVE StrLen(_)
StrLen(s) == IF s = <<>> THEN 0 ELSE Width(Head(s)) + StrLen(Tail(s))

RECURSIVE LStrip(_)
LStrip(s) == IF s # <<>> /\ Head(s) = " " THEN LStrip(Tail(s)) ELSE s

RECURSIVE RStrip(_)
RStrip(s) ==
    IF s # <<>> /\ s[Len(s)] = " " THEN RStrip(SubSeq(s, 1, Len(s) - 1)) ELSE s

Strip(s) == RStrip(LStrip(s))

\* str.split('.'): the pieces between terminators; always at least one piece
RECURSIVE SplitFrom(_, _, _)
SplitFrom(s, i, piece) ==
    IF i > Len(s) THEN <<piece>>
    ELSE IF s[i] = "." THEN <<piece>> \o SplitFrom(s, i + 1, <<>>)
    ELSE SplitFrom(s, i + 1, Append(piece, s[i]))

SplitDot(s) == SplitFrom(s, 1, <<>>)

\* ------------------------------------------------------------------------
\* split_into_chunks
\* ------------------------------------------------------------------------
Chunk(s) == [text |-> Strip(s)]

Overflows(current_chunk, sentence, size) ==
    StrLen(current_chunk) + StrLen(sentence) > size

AccumulateNoTerminator(current_chunk, sentence) == current_chunk \o sentence

Accumulate(current_chunk, sentence) == current_chunk \o sentence \o <<".">>

RECURSIVE ChunkLoop(_, _, _, _, _)
ChunkLoop(sentences, i, acc, current_chunk, size) ==
    IF i > Len(sentences)
    THEN IF current_chunk # <<>> THEN Append(acc, Chunk(current_chunk)) ELSE acc
    ELSE IF Overflows(current_chunk, sentences[i], size)
         THEN ChunkLoop(sentences, i + 1, Append(acc, Chunk(current_chunk)),
                        sentences[i], size)
         ELSE ChunkLoop(sentences, i + 1, acc,
                        Accumulate(current_chunk, sentences[i]), size)

split_into_chunks(t, size) == ChunkLoop(SplitDot(t), 1, <<>>, <<>>, size)

\* ------------------------------------------------------------------------
\* Chunker harness: inputs drawn from bounded sets, one call
\* ------------------------------------------------------------------------
Texts == UNION {[1..n -> Alphabet] : n \in 0..MaxTextLen}

ChunkSizes == 0..MaxChunkSize

SplitCall ==
    /\ chunkPc = "ready"
    /\ chunks' = split_into_chunks(text, chunk_size)
    /\ chunkPc' = "done"
    /\ UNCHANGED <<text, chunk_size, chatVars, storeVars>>

\* ------------------------------------------------------------------------
\* chat: the query flow
\* ------------------------------------------------------------------------
MediaIds == {1, 2}

WorkspaceIds == {1, 2}

Min(a, b) == IF a < b THEN a ELSE b

GenericInstruction == "You are a helpful assistant."

ContextInstruction == "answer from the provided context"

\* similarities in hundredths; the store returns only rows >= 0.35
SimOrders == {"desc", "asc"}

Similarity(order, i) == IF order = "desc" THEN 99 - i ELSE 35 + i

ResultRows(n, owner, order) ==
    [i \in 1..n |-> [id |-> i, media_id |-> owner[i], chunk_text |-> i,
                     similarity |-> Similarity(order, i)]]

\* what the match_chunks rpc may return: up to MaxFreeResults rows of any
\* documents, or up to MaxResults rows in two runs of one document each;
\* in descending or disturbed order of similarity
VectorResults ==
    UNION {
        { ResultRows(n, owner, order)
            : owner \in [1..n -> MediaIds], order \in SimOrders }
        : n \in 0..MaxFreeResults }
    \cup
    UNION {
        { ResultRows(n, [i \in 1..n |-> IF i <= k[1] THEN k[2] ELSE k[3]], order)
            : k \in (0..n) \X MediaIds \X MediaIds, order \in SimOrders }
        : n \in 0..MaxResults }

Requests ==
    [query : {"q"}, workspace_id : WorkspaceIds, user_id : {"", "u"},
     max_context_chunks : {1, DefaultMaxContextChunks}]

Failure(code) == [kind |-> "failure", status |-> code, sources |-> <<>>]

\* except Exception as e: raise HTTPException(status_code=500, ...)
StatusAfterCatchAll(code) == 500

SwallowError(code) ==
    [kind |-> "response", status |-> 200, sources |-> <<>>]

\* the handler's catch-all: every exception leaves as a 500
CatchAll(code) == Failure(StatusAfterCatchAll(code))

ChatResponse(sources) == [kind |-> "response", status |-> 200, sources |-> sources]

FallbackCompletion(req) ==
    [kind |-> "fallback", system |-> GenericInstruction, query |-> req.query,
     context |-> <<>>]

GroundedCompletion(req, ctx) ==
    [kind |-> "grounded", system |-> ContextInstruction, query |-> req.query,
     context |-> ctx]

WorkspaceMedia(mapping, ws) == {row[1] : row \in {r \in mapping : r[2] = ws}}

InWorkspaceAny(result, ids) == TRUE

InWorkspace(result, ids) == result.media_id \in ids

NeverEmpty(ids) == FALSE

NoWorkspaceMedia(ids) == ids = {}

AlwaysCandidates(result) == FALSE

\* if not vector_search_result
NoCandidates(result) == result = <<>>

FilterResults(results, ids) ==
    SelectSeq(results, LAMBDA r : InWorkspace(r, ids))

Unsorted(rows) == rows

\* list.sort(key=similarity, reverse=True): stable, descending
RECURSIVE InsertDesc(_, _)
InsertDesc(sorted, x) ==
    IF sorted = <<>> THEN <<x>>
    ELSE IF Head(sorted).similarity >= x.similarity
         THEN <<Head(sorted)>> \o InsertDesc(Tail(sorted), x)
         ELSE <<x>> \o sorted

RECURSIVE SortDesc(_)
SortDesc(rows) ==
    IF rows = <<>> THEN <<>>
    ELSE InsertDesc(SortDesc(SubSeq(rows, 1, Len(rows) - 1)), rows[Len(rows)])

TopChunks(filtered) == SubSeq(filtered, 1, Min(ContextLimit, Len(filtered)))

MediaName(chunk) ==
    IF "media" \in DOMAIN chunk THEN chunk.media.name ELSE "Unknown"

ContextBlock(chunk) ==
    [media_name |-> MediaName(chunk), chunk_text |-> chunk.chunk_text]

MediaContext(chunk) ==
    [media_id |-> chunk.media_id, media_name |-> MediaName(chunk),
     chunk_id |-> chunk.id, chunk_text |-> chunk.chunk_text,
     similarity |-> chunk.similarity]

BuildContext(top) == [i \in 1..Len(top) |-> ContextBlock(top[i])]

BuildSources(top) == [i \in 1..Len(top) |-> MediaContext(top[i])]

\* request arrives; without a user_id the 401 is raised inside the try
ChatBegin(req) ==
    /\ chatPc = "idle"
    /\ request' = req
    /\ IF req.user_id = ""
       THEN /\ outcome' = CatchAll(401)
            /\ chatPc' = "done"
            /\ calls' = calls
       ELSE /\ calls' = Append(calls, "embed")
            /\ chatPc' = "embedding"
            /\ outcome' = outcome
    /\ UNCHANGED <<vector_search_result, workspace_media_ids, filtered_results,
                   context, context_sources, completion, chunkVars, storeVars>>

\* create_embedding returns or raises
ChatEmbedReturn(ok) ==
    /\ chatPc = "embedding"
    /\ IF ok
       THEN /\ chatPc' = "retrieve"
            /\ outcome' = outcome
       ELSE /\ chatPc' = "done"
            /\ outcome' = CatchAll(500)
    /\ UNCHANGED <<request, vector_search_result, workspace_media_ids,
                   filtered_results, context, context_sources, completion,
                   calls, chunkVars, storeVars>>

\* match_documents, then the empty check and its fallback generation call
ChatRetrieve(ok, result) ==
    /\ chatPc = "retrieve"
    /\ IF ~ok
       THEN /\ chatPc' = "done"
            /\ outcome' = CatchAll(500)
            /\ calls' = Append(calls, "search")
            /\ UNCHANGED <<vector_search_result, completion>>
       ELSE /\ vector_search_result' = result
            /\ outcome' = outcome
            /\ IF NoCandidates(result)
               THEN /\ completion' = FallbackCompletion(request)
                    /\ calls' = calls \o <<"search", "generate">>
                    /\ chatPc' = "generating"
               ELSE /\ completion' = completion
                    /\ calls' = Append(calls, "search")
                    /\ chatPc' = "filter"
    /\ UNCHANGED <<request, workspace_media_ids, filtered_results, context,
                   context_sources, chunkVars, storeVars>>

\* the membership read, the filter, the sort, the assembly and the
\* generation call of the branch taken
ChatFilterWorkspace(ok) ==
    /\ chatPc = "filter"
    /\ IF ~ok
       THEN /\ chatPc' = "done"
            /\ outcome' = CatchAll(500)
            /\ calls' = Append(calls, "mapping")
            /\ UNCHANGED <<workspace_media_ids, filtered_results, context,
                           context_sources, completion>>
       ELSE LET ids == WorkspaceMedia(media_workspace_mapping,
                                      request.workspace_id)
                filtered == SortDesc(FilterResults(vector_search_result, ids))
                top == TopChunks(filtered)
            IN /\ workspace_media_ids' = ids
               /\ outcome' = outcome
               /\ calls' = calls \o <<"mapping", "generate">>
               /\ chatPc' = "generating"
               /\ IF NoWorkspaceMedia(ids)
                  THEN /\ completion' = FallbackCompletion(request)
                       /\ UNCHANGED <<filtered_results, context, context_sources>>
                  ELSE /\ filtered_results' = filtered
                       /\ context' = BuildContext(top)
                       /\ context_sources' = BuildSources(top)
                       /\ completion' = GroundedCompletion(request, BuildContext(top))
    /\ UNCHANGED <<request, vector_search_result, chunkVars, storeVars>>

\* the generation call returns or raises
ChatGenerateReturn(ok) ==
    /\ chatPc = "generating"
    /\ chatPc' = "done"
    /\ outcome' = IF ~ok THEN CatchAll(500)
                  ELSE IF completion.kind = "fallback" THEN ChatResponse(<<>>)
                  ELSE ChatResponse(context_sources)
    /\ UNCHANGED <<request, vector_search_result, workspace_media_ids,
                   filtered_results, context, context_sources, completion,
                   calls, chunkVars, storeVars>>

\* ------------------------------------------------------------------------
\* The store and the ingestion flow
\* ------------------------------------------------------------------------
\* what the converter extracts from an uploaded file
DocTexts == { <<>>, <<"W", ".", "W">>, <<"W", ".", "W", ".", "W">> }

\* the documents that are uploaded: the flows are per document
Documents == {1}

\* fileName of a process-chunks request: 0 is the empty name, f the
\* storage path of file f
FileNames == {0} \cup Documents

\* one call of process_chunks; kind "bg" is the task upload_file queued
NewTask(kind, fileName) ==
    [kind |-> kind, fileName |-> fileName, pc |-> "queued", media_id |-> 0,
     chunks |-> <<>>, idx |-> 0, results |-> <<>>, raised |-> 0, status |-> 0,
     escaped |-> FALSE]

\* background_process_chunks awaits process_chunks with no try/except
EscapesTask(kind, failed) == kind = "bg" /\ failed

\* the call ends by raising `code` inside the outer try
TaskFailed(tk, code) ==
    [tk EXCEPT !.pc = "done", !.raised = code,
               !.status = StatusAfterCatchAll(code),
               !.escaped = EscapesTask(tk.kind, TRUE)]

TaskSucceeded(tk) ==
    [tk EXCEPT !.pc = "done", !.status = 200,
               !.escaped = EscapesTask(tk.kind, FALSE)]

\* upload_file, from the read of the file to its response
UploadFile(txt, result) ==
    /\ Len(uploads) < Cardinality(Documents)
    /\ IF result \in {"unauth", "storage_fail"}
       THEN /\ uploads' = Append(uploads,
                            [status |-> StatusAfterCatchAll(
                                            IF result = "unauth" THEN 401 ELSE 500),
                             mediaId |-> 0])
            /\ UNCHANGED <<fileText, nextMediaId, storage, media,
                           media_workspace_mapping, tasks>>
       ELSE LET f == nextMediaId IN
            /\ fileText' = Append(fileText, txt)
            /\ nextMediaId' = f + 1
            /\ storage' = storage \cup {f}
            /\ media' = IF result \in {"mapping_fail", "ok"}
                        THEN media \cup {f} ELSE media
            /\ media_workspace_mapping' =
                   IF result = "ok" THEN media_workspace_mapping \cup {<<f, 1>>}
                   ELSE media_workspace_mapping
            /\ tasks' = IF result = "ok" THEN Append(tasks, NewTask("bg", f))
                        ELSE tasks
            /\ uploads' = Append(uploads,
                            IF result = "ok"
                            THEN [status |-> 200, mediaId |-> f]
                            ELSE [status |-> StatusAfterCatchAll(500),
                                  mediaId |-> 0])
    /\ UNCHANGED <<chunksTable, deleted, chunkVars, chatVars>>

UploadResults == {"unauth", "storage_fail", "media_fail", "mapping_fail", "ok"}

\* process_chunks from its entry to the first embedding call:
\* validation, download, media lookup, conversion, chunking
ProcessBegin(tk, download_ok, convert_ok) ==
    IF tk.fileName = 0 THEN TaskFailed(tk, 400)
    ELSE IF tk.fileName \notin storage \/ ~download_ok THEN TaskFailed(tk, 404)
    ELSE IF tk.fileName \notin media THEN TaskFailed(tk, 404)
    ELSE IF ~convert_ok THEN TaskFailed(tk, 500)
    ELSE LET cs == split_into_chunks(fileText[tk.fileName], DefaultChunkSize)
         IN IF cs = <<>>
            THEN TaskSucceeded([tk EXCEPT !.media_id = tk.fileName])
            ELSE [tk EXCEPT !.pc = "embedding", !.media_id = tk.fileName,
                            !.chunks = cs, !.idx = 1]

\* a foreground request to /process-chunks
ForegroundProcess(fileName, download_ok, convert_ok) ==
    /\ Cardinality({t \in DOMAIN tasks : tasks[t].kind = "fg"}) < MaxForeground
    /\ tasks' = Append(tasks,
                       ProcessBegin(NewTask("fg", fileName), download_ok, convert_ok))
    /\ UNCHANGED <<storage, media, media_workspace_mapping, chunksTable,
                   nextMediaId, fileText, uploads, deleted, chunkVars, chatVars>>

\* the queued background task starts, after the upload's response
BackgroundStart(t, download_ok, convert_ok) ==
    /\ t \in DOMAIN tasks
    /\ tasks[t].pc = "queued"
    /\ tasks' = [tasks EXCEPT ![t] = ProcessBegin(tasks[t], download_ok, convert_ok)]
    /\ UNCHANGED <<storage, media, media_workspace_mapping, chunksTable,
                   nextMediaId, fileText, uploads, deleted, chunkVars, chatVars>>

ChunkRow(t, tk, i) ==
    [id |-> <<t, i>>, media_id |-> tk.media_id, chunk_text |-> tk.chunks[i].text]

SkipIndex(idx) == idx + 2

NextIndex(idx) == idx + 1

\* the embedding of chunk idx returns; the row is inserted; the loop goes on
\* to the next embedding call or the call returns
ProcessEmbedInsert(t, result) ==
    /\ t \in DOMAIN tasks
    /\ tasks[t].pc = "embedding"
    /\ LET tk == tasks[t] IN
       IF result # "ok"
       THEN /\ tasks' = [tasks EXCEPT ![t] = TaskFailed(tk, 500)]
            /\ chunksTable' = chunksTable
       ELSE LET next == [tk EXCEPT !.results = Append(tk.results, <<t, tk.idx>>),
                                   !.idx = NextIndex(tk.idx)]
            IN /\ chunksTable' = chunksTable \cup {ChunkRow(t, tk, tk.idx)}
               /\ tasks' = [tasks EXCEPT ![t] =
                              IF next.idx > Len(tk.chunks)
                              THEN TaskSucceeded(next) ELSE next]
    /\ UNCHANGED <<storage, media, media_workspace_mapping, nextMediaId,
                   fileText, uploads, deleted, chunkVars, chatVars>>

EmbedInsertResults == {"ok", "embed_fail", "insert_fail"}

\* delete_media: no suspension point between its store calls
DeleteMedia(m, result) ==
    /\ IF m \notin media
       THEN /\ result = "not_found"
            /\ UNCHANGED <<storage, chunksTable, media>>
       ELSE /\ result \in {"ok", "ok_storage_kept", "chunks_fail", "media_fail"}
            /\ storage' = IF result = "ok_storage_kept" THEN storage
                          ELSE storage \ {m}
            /\ chunksTable' = IF result = "chunks_fail" THEN chunksTable
                              ELSE {r \in chunksTable : r.media_id # m}
            /\ media' = IF result \in {"ok", "ok_storage_kept"}
                        THEN media \ {m} ELSE media
    /\ deleted' = IF result \in {"ok", "ok_storage_kept"}
                  THEN deleted \cup {<<m, "deleted">>}
                  ELSE IF result = "media_fail"
                  THEN deleted \cup {<<m, "chunks_deleted">>}
                  ELSE deleted
    /\ UNCHANGED <<media_workspace_mapping, nextMediaId, fileText, tasks,
                   uploads, chunkVars, chatVars>>

DeleteResults ==
    {"not_found", "ok", "ok_storage_kept", "chunks_fail", "media_fail"}

\* ------------------------------------------------------------------------
\* States of the parts a specification leaves alone
\* ------------------------------------------------------------------------
NoRequest == [query |-> "", workspace_id |-> 0, user_id |-> "",
              max_context_chunks |-> DefaultMaxContextChunks]

NoCompletion == [kind |-> "none", system |-> "", query |-> "", context |-> <<>>]

ChunkerIdle ==
    /\ text = <<>>
    /\ chunk_size = 0
    /\ chunks = <<>>
    /\ chunkPc = "off"

ChatIdle ==
    /\ chatPc = "idle"
    /\ request = NoRequest
    /\ vector_search_result = <<>>
    /\ workspace_media_ids = {}
    /\ filtered_results = <<>>
    /\ context = <<>>
    /\ context_sources = <<>>
    /\ completion = NoCompletion
    /\ outcome = [kind |-> "none", status |-> 0, sources |-> <<>>]
    /\ calls = <<>>

StoreEmpty ==
    /\ storage = {}
    /\ media = {}
    /\ media_workspace_mapping = {}
    /\ chunksTable = {}
    /\ nextMediaId = 1
    /\ fileText = <<>>
    /\ tasks = <<>>
    /\ uploads = <<>>
    /\ deleted = {}

\* ------------------------------------------------------------------------
\* Specification of the chunker: one call on every bounded input
\* ------------------------------------------------------------------------
InitChunk ==
    /\ text \in Texts
    /\ chunk_size \in ChunkSizes
    /\ chunks = <<>>
    /\ chunkPc = "ready"
    /\ ChatIdle
    /\ StoreEmpty

NextChunk == SplitCall

SpecChunk == InitChunk /\ [][NextChunk]_vars

\* ------------------------------------------------------------------------
\* Claims about split_into_chunks
\* ------------------------------------------------------------------------
ChunkTexts == {chunks[i].text : i \in 1..Len(chunks)}

HasTerminator(s) == \E i \in 1..Len(s) : s[i] = "."

\* the text of a chunk without the one terminator that ends it
Unterminated(s) ==
    IF s # <<>> /\ s[Len(s)] = "." THEN SubSeq(s, 1, Len(s) - 1) ELSE s

\* a chunk made of one sentence that is itself longer than the limit
SingleOversized(s, size) ==
    /\ ~HasTerminator(Unterminated(s))
    /\ StrLen(Unterminated(s)) > size

\* C7: for every text and every limit L >= 1, no chunk is longer than L
\* characters unless it is a single sentence that is itself longer than L.
C7_SoftLimit ==
    (chunkPc = "done" /\ chunk_size >= 1) =>
        \A c \in ChunkTexts :
            StrLen(c) <= chunk_size \/ SingleOversized(c, chunk_size)

\* C8: for every non-empty text and every chunk size, every chunk has
\* non-empty text after trimming.
C8_NonEmptyChunks ==
    (chunkPc = "done" /\ text # <<>>) =>
        \A c \in ChunkTexts : Strip(c) # <<>>

\* the non-blank sentences of a sequence of '.'-separated pieces, trimmed
RECURSIVE NonBlank(_)
NonBlank(pieces) ==
    IF pieces = <<>> THEN <<>>
    ELSE IF Strip(Head(pieces)) = <<>> THEN NonBlank(Tail(pieces))
    ELSE <<Strip(Head(pieces))>> \o NonBlank(Tail(pieces))

RECURSIVE ChunkSentences(_)
ChunkSentences(cs) ==
    IF cs = <<>> THEN <<>>
    ELSE NonBlank(SplitDot(Head(cs).text)) \o ChunkSentences(Tail(cs))

\* C9: the sentences of the emitted chunks, read in chunk order and split on
\* '.', are the sentences of the input in the same order (modulo trimming
\* and empty sentences left by terminators): none lost, duplicated,
\* reordered or merged with its neighbour.
C9_SentencesReconstructed ==
    chunkPc = "done" => ChunkSentences(chunks) = NonBlank(SplitDot(text))

\* C10 as stated: the empty text gives exactly one chunk, whose text is the
\* empty string, for every chunk size.
C10_EmptyTextEmptyChunk ==
    (chunkPc = "done" /\ text = <<>>) => chunks = <<[text |-> <<>>]>>

\* C10 amended: the empty text gives exactly one chunk, and its text is the
\* lone terminator "." re-appended to the single empty sentence, for every
\* chunk size >= 0.
C10_EmptyTextOneTerminatorChunk ==
    (chunkPc = "done" /\ text = <<>>) => chunks = <<[text |-> <<".">>]>>

C10_Witness == chunkPc = "done" /\ text = <<>> /\ Len(chunks) = 1

\* ------------------------------------------------------------------------
\* Specification of the query flow: one chat request against a store whose
\* workspace memberships are drawn from ChatMappings
\* ------------------------------------------------------------------------
ChatMappings == { {<<1, 1>>}, {<<1, 1>>, <<2, 1>>, <<2, 2>>} }

InitChat ==
    /\ ChunkerIdle
    /\ ChatIdle
    /\ storage = {}
    /\ media = MediaIds
    /\ media_workspace_mapping \in ChatMappings
    /\ chunksTable = {}
    /\ nextMediaId = 3
    /\ fileText = <<>>
    /\ tasks = <<>>
    /\ uploads = <<>>
    /\ deleted = {}

NextChat ==
    \/ \E req \in Requests : ChatBegin(req)
    \/ \E ok \in BOOLEAN : ChatEmbedReturn(ok)
    \/ ChatRetrieve(FALSE, <<>>)
    \/ \E result \in VectorResults : ChatRetrieve(TRUE, result)
    \/ \E ok \in BOOLEAN : ChatFilterWorkspace(ok)
    \/ \E ok \in BOOLEAN : ChatGenerateReturn(ok)

SpecChat == InitChat /\ [][NextChat]_vars

\* ------------------------------------------------------------------------
\* Claims about the query flow
\* ------------------------------------------------------------------------
RequestWorkspaceMedia ==
    WorkspaceMedia(media_workspace_mapping, request.workspace_id)

\* the retrieved candidates that belong to a document of the workspace
MemberCandidates == SelectSeq(vector_search_result,
                              LAMBDA r : r.media_id \in RequestWorkspaceMedia)

GenerationIssued == completion.kind # "none"

Responded == chatPc = "done" /\ outcome.kind = "response"

\* the document owning the chunk rendered in a context block
BlockOwner(block) == vector_search_result[block.chunk_text].media_id

\* C1: every source of a response, and every block of the context sent to
\* generation, is a chunk of a document of the request's workspace, whatever
\* the vector search returned.
C1_SourcesInWorkspace ==
    /\ \A i \in 1..Len(completion.context) :
           BlockOwner(completion.context[i]) \in RequestWorkspaceMedia
    /\ Responded =>
           \A i \in 1..Len(outcome.sources) :
               outcome.sources[i].media_id \in RequestWorkspaceMedia

C1_Witness ==
    /\ Responded
    /\ outcome.sources # <<>>
    /\ \E i \in 1..Len(vector_search_result) :
           vector_search_result[i].media_id \notin RequestWorkspaceMedia

FilterRan == GenerationIssued /\ vector_search_result # <<>>

\* C2 as stated: whenever the filter yields no candidates (no member
\* documents, or no candidate of a member document), the generation call is
\* the fallback one: generic instruction, raw query, no context; and the
\* sources are empty.
C2_EmptyFilterFallsBack ==
    (FilterRan /\ MemberCandidates = <<>>) =>
        /\ completion = FallbackCompletion(request)
        /\ Responded => outcome.sources = <<>>

\* C2 amended: when the workspace has no member documents the generation
\* call is the fallback one (generic instruction, raw query, no context);
\* when it has member documents but no candidate belongs to one, the
\* generation call is the grounded one (context instruction) with an empty
\* context; in both cases the sources are empty.
C2_EmptyWorkspaceFallsBack ==
    (FilterRan /\ MemberCandidates = <<>>) =>
        /\ RequestWorkspaceMedia = {} => completion = FallbackCompletion(request)
        /\ RequestWorkspaceMedia # {} =>
               completion = GroundedCompletion(request, <<>>)
        /\ Responded => outcome.sources = <<>>

C2_Witness ==
    /\ Responded
    /\ vector_search_result # <<>>
    /\ RequestWorkspaceMedia = {}
    /\ completion.kind = "fallback"

\* C3: the number of context blocks and of sources is exactly
\* min(max_context_chunks, number of workspace-filtered candidates).
C3_CallerLimit ==
    Responded =>
        LET n == Min(request.max_context_chunks, Len(MemberCandidates))
        IN /\ Len(outcome.sources) = n
           /\ Len(completion.context) = n

\* ------------------------------------------------------------------------
\* Specification of the ingestion flow: uploads with their background
\* tasks, foreground process-chunks requests and deletions, interleaved at
\* the suspension points
\* ------------------------------------------------------------------------
InitIngest ==
    /\ ChunkerIdle
    /\ ChatIdle
    /\ StoreEmpty

NextIngest ==
    \/ \E txt \in DocTexts, result \in UploadResults : UploadFile(txt, result)
    \/ \E f \in FileNames, d, c \in BOOLEAN : ForegroundProcess(f, d, c)
    \/ \E t \in DOMAIN tasks, d, c \in BOOLEAN : BackgroundStart(t, d, c)
    \/ \E t \in DOMAIN tasks, result \in EmbedInsertResults :
           ProcessEmbedInsert(t, result)
    \/ \E m \in Documents, result \in DeleteResults : DeleteMedia(m, result)

SpecIngest == InitIngest /\ [][NextIngest]_vars

\* ------------------------------------------------------------------------
\* Claims about the ingestion flow
\* ------------------------------------------------------------------------
\* the rows of the store that call t inserted
RowsOf(t) == {r \in chunksTable : r.id[1] = t}

Ended(t) == tasks[t].pc = "done"

\* the documents whose chunk rows a delete_media call has removed
ChunksDeletedOf == {d[1] : d \in deleted}

DeletedOk == {d[1] : d \in {e \in deleted : e[2] = "deleted"}}

\* C4 as stated: after a call of process_chunks, whether it succeeded or
\* failed, either all the chunker's chunks of the call are persisted or
\* none is: never a proper non-empty subset.
C4_AllOrNothing ==
    \A t \in DOMAIN tasks :
        Ended(t) =>
            \/ RowsOf(t) = {}
            \/ Cardinality(RowsOf(t)) = Len(tasks[t].chunks)

\* C4 amended: process_chunks inserts the chunker's chunks one at a time in
\* chunk order and never rolls back.  The rows a call has inserted are
\* always a prefix of the chunker's output: all of it when the call
\* succeeds, the chunks before the failing one (possibly a proper non-empty
\* subset) when an embedding or an insert fails; they stay in the store
\* unless a delete_media of the document removes them.
C4_PrefixPersisted ==
    \A t \in DOMAIN tasks :
        LET tk == tasks[t]
            inserted == {ChunkRow(t, tk, i) : i \in 1..Len(tk.results)}
        IN /\ Len(tk.results) <= Len(tk.chunks)
           /\ tk.results = [i \in 1..Len(tk.results) |-> <<t, i>>]
           /\ RowsOf(t) \subseteq inserted
           /\ tk.media_id \notin ChunksDeletedOf => RowsOf(t) = inserted
           /\ (Ended(t) /\ tk.status = 200) => Len(tk.results) = Len(tk.chunks)
           /\ (Ended(t) /\ tk.status # 200) =>
                  (tk.chunks = <<>> \/ Len(tk.results) < Len(tk.chunks))

C4_Witness ==
    \E t \in DOMAIN tasks :
        /\ Ended(t)
        /\ tasks[t].status # 200
        /\ RowsOf(t) # {}
        /\ Cardinality(RowsOf(t)) = Len(tasks[t].results)
        /\ Len(tasks[t].results) < Len(tasks[t].chunks)

\* C5: once delete_media(m) has returned success, no chunk row with
\* media_id m exists, in that state or any later one, whatever ingestion of
\* the document is in flight.
C5_NoChunksAfterDelete ==
    \A r \in chunksTable : r.media_id \notin DeletedOk

\* C6: an error of the ingestion started by upload_file is caught inside the
\* background task and never leaves it; the upload's success response was
\* produced before the task ran and does not change.
C6_BackgroundErrorsSwallowed ==
    \A t \in DOMAIN tasks :
        tasks[t].kind = "bg" =>
            /\ ~tasks[t].escaped
            /\ \E u \in DOMAIN uploads :
                   uploads[u] = [status |-> 200, mediaId |-> tasks[t].fileName]

\* C11: the ingestion endpoint reports each error kind to its synchronous
\* caller as that kind: an absent file or media record as 404, an empty
\* fileName as 400 (raised before any store, conversion or embedding
\* call); neither as the generic 500.
C11_ErrorKindsSurfaced ==
    \A t \in DOMAIN tasks :
        (tasks[t].kind = "fg" /\ Ended(t) /\ tasks[t].raised \in {400, 404}) =>
            /\ tasks[t].status = tasks[t].raised
            /\ RowsOf(t) = {}

\* ------------------------------------------------------------------------
\* Claims about the order of the steps of a chat query
\* ------------------------------------------------------------------------
GroundedCalls == <<"embed", "search", "mapping", "generate">>

UngroundedCalls == <<"embed", "search", "generate">>

IsPrefix(p, q) == Len(p) <= Len(q) /\ p = SubSeq(q, 1, Len(p))

Count(log, step) == Cardinality({i \in 1..Len(log) : log[i] = step})

\* C12: every chat query ends in exactly one outcome, a response or a
\* failure; it issues at most one embedding call, then at most one
\* retrieval, then at most one membership read, then at most one
\* generation call, in that order; and a response is returned only after
\* exactly one generation call.
C12_OneOutcomeOrderedSteps ==
    /\ IsPrefix(calls, GroundedCalls) \/ IsPrefix(calls, UngroundedCalls)
    /\ (chatPc = "done") <=> (outcome.kind \in {"response", "failure"})
    /\ chatPc # "done" => outcome.kind = "none"
    /\ Responded =>
           /\ Count(calls, "generate") = 1
           /\ calls[Len(calls)] = "generate"
           /\ GenerationIssued
    /\ chatPc = "generating" <=>
           (outcome.kind = "none" /\ Count(calls, "generate") = 1)

C12_Witness == Responded /\ calls = GroundedCalls

\* the retrieval returned, and returned no candidates
RetrievedNothing ==
    /\ "search" \in {calls[i] : i \in 1..Len(calls)}
    /\ vector_search_result = <<>>
    /\ ~(chatPc = "done" /\ calls = <<"embed", "search">>)

\* C13: if the retrieval returns no candidates the query goes directly to
\* fallback generation: the membership read, the filter and the context
\* assembly are never executed, and the response's sources list is empty.
C13_EmptyRetrievalFallsBack ==
    RetrievedNothing =>
        /\ calls = UngroundedCalls
        /\ completion = FallbackCompletion(request)
        /\ workspace_media_ids = {}
        /\ filtered_results = <<>>
        /\ context = <<>>
        /\ context_sources = <<>>
        /\ Responded => outcome.sources = <<>>

C13_Witness ==
    /\ RetrievedNothing
    /\ Responded
    /\ RequestWorkspaceMedia # {}

\* ------------------------------------------------------------------------
\* Claims about the assembled context and its citations
\* ------------------------------------------------------------------------
Grounded == completion.kind = "grounded"

\* the similarity of the chunk rendered in a context block
BlockSimilarity(block) == vector_search_result[block.chunk_text].similarity

NonIncreasing(sims) ==
    \A i, j \in 1..Len(sims) : i < j => sims[i] >= sims[j]

\* C14: in every grounded response the citations are as many as the context
\* blocks of the prompt, the i-th citation describes the chunk of the i-th
\* block, and both are in non-increasing order of similarity, even when the
\* vector store returned its candidates in another order.
C14_CitationsFollowContext ==
    Grounded =>
        /\ Len(context_sources) = Len(completion.context)
        /\ \A i \in 1..Len(context_sources) :
               /\ context_sources[i].chunk_text = completion.context[i].chunk_text
               /\ context_sources[i].media_name = completion.context[i].media_name
               /\ context_sources[i].chunk_id =
                      vector_search_result[completion.context[i].chunk_text].id
               /\ context_sources[i].similarity =
                      BlockSimilarity(completion.context[i])
        /\ NonIncreasing([i \in 1..Len(context_sources) |->
                              context_sources[i].similarity])
        /\ NonIncreasing([i \in 1..Len(completion.context) |->
                              BlockSimilarity(completion.context[i])])
        /\ Responded => outcome.sources = context_sources

C14_Witness ==
    /\ Grounded
    /\ Responded
    /\ Len(outcome.sources) >= 2
    /\ \E i, j \in 1..Len(MemberCandidates) :
           i < j /\ MemberCandidates[i].similarity < MemberCandidates[j].similarity

====
